---- MODULE Spec2Model ----
(***************************************************************************)
(* Book management API (src/src/book_mgt_api.py): eight request handlers   *)
(* over two PostgreSQL tables, books and reviews.                          *)
(*                                                                         *)
(* A handler runs in its own AsyncSession (get_db).  The handlers that     *)
(* read a Book and then commit (update_book, delete_book, create_review)   *)
(* are suspended at the await between their SELECT and their commit, and   *)
(* other requests run in between: they are two steps here.  A commit and   *)
(* the refresh that follows it are one step.  The step that ends a handler *)
(* leaves its response in `response`; deliver hands it to the caller.      *)
(***************************************************************************)
EXTENDS Integers, Sequences, FiniteSets, Bags, TLC

\* ------------------------------------------------------------------ bounds
\* Values the sequence books_id_seq may hand out before the model stops
\* creating Books.
MaxBookId == 2
\* Values the sequence reviews_id_seq may hand out.
MaxReviewId == 2
\* Dead row versions a heap holds before the store reclaims one.
MaxDead == 1
\* Requests suspended between their SELECT and their commit at one time.
MaxSessions == 1
\* The same, where the races between suspended requests are checked.
MaxRacing == 2
\* Values reviews_id_seq may hand out where the summaries are checked.
MaxSummaryReviewId == 3

\* --------------------------------------------------------------- values
\* Optional[T]: None, or a one-element sequence holding the value.
None == << >>
Some(v) == << v >>

\* A str is a sequence of characters.
Space == << " " >>

\* --------------------------------------------------------- authentication
\* Salts get_password_hash may draw.
Salts == {1, 2}

\* bcrypt: the digest depends on the salt, which the hash carries.
Digest(password, salt) == << salt, password >>

\* pwd_context.hash(password), for each salt it may draw.
get_password_hash(password) ==
  { [salt |-> salt, digest |-> Digest(password, salt)] : salt \in Salts }

\* pwd_context.verify(plain_password, hashed_password)
verify_password(plain_password, hashed_password) ==
  Digest(plain_password, hashed_password.salt) = hashed_password.digest

\* Mutant: either field right is enough.
authenticate_user_either(credentials) ==
  LET correct_username == credentials.username = "admin"
      correct_password ==
        \A hashed \in get_password_hash("password") :
          verify_password(credentials.password, hashed)
  IN  correct_username \/ correct_password

\* TRUE: returns True.  FALSE: raises HTTPException(401).
authenticate_user(credentials) ==
  LET correct_username == credentials.username = "admin"
      correct_password ==
        \A hashed \in get_password_hash("password") :
          verify_password(credentials.password, hashed)
  IN  correct_username /\ correct_password

ValidCredentials == [username |-> "admin", password |-> "password"]

Credentials ==
  { ValidCredentials,
    [username |-> "admin", password |-> "wrong"],
    [username |-> "wrong", password |-> "password"] }

\* ------------------------------------------------------------- payloads
BookFields == {"title", "author", "genre", "year_published", "summary"}
OptionalBookFields == {"genre", "year_published", "summary"}

\* Request bodies as sent: the keys the caller gave.
RawBooks ==
  { [title |-> "Dune", author |-> "Herbert"],
    [title |-> "Emma", author |-> "Austen", genre |-> "Novel",
     year_published |-> 1815, summary |-> "Match" ] }

\* BookCreate(**raw).dict(): every field, an absent optional one None.
BookCreate(raw) ==
  [ title          |-> raw.title,
    author         |-> raw.author,
    genre          |-> IF "genre" \in DOMAIN raw THEN Some(raw.genre) ELSE None,
    year_published |-> IF "year_published" \in DOMAIN raw
                       THEN Some(raw.year_published) ELSE None,
    summary        |-> IF "summary" \in DOMAIN raw THEN Some(raw.summary) ELSE None ]

\* ReviewCreate: user_id int, review_text str, rating int (no range).
ReviewCreates ==
  { [user_id |-> 7, review_text |-> << "o", "k" >>, rating |-> 5],
    [user_id |-> 8, review_text |-> << "n", "o" >>, rating |-> 1],
    [user_id |-> 7, review_text |-> << "x" >>, rating |-> 0],
    [user_id |-> 8, review_text |-> << "y" >>, rating |-> 6] }

\* ---------------------------------------------------------------- tables
\* A table is its heap: the row slots in the order a sequential scan reads
\* them.  A slot is a row or Free (a dead tuple the store has reclaimed).
Free == [id |-> 0]

\* Mutant: year_published is not passed on.
Book_without_year(id, book) ==
  [ id |-> id, title |-> book.title, author |-> book.author, genre |-> book.genre,
    year_published |-> None, summary |-> book.summary ]

\* Book(**book.dict()) with the id the store assigns.
Book(id, book) ==
  [ id |-> id, title |-> book.title, author |-> book.author, genre |-> book.genre,
    year_published |-> book.year_published, summary |-> book.summary ]

\* Review(**review.dict(), book_id=id) with the id the store assigns.
Review(id, book_id, review) ==
  [ id |-> id, book_id |-> book_id, user_id |-> review.user_id,
    review_text |-> review.review_text, rating |-> review.rating ]

IsLive(row) == row.id # 0

\* SELECT without ORDER BY: the live rows in heap order.
Scan(heap) == SelectSeq(heap, IsLive)

RECURSIVE Trim(_)
\* The store truncates the free slots at the end of a heap.
Trim(heap) ==
  IF heap # << >> /\ ~IsLive(heap[Len(heap)])
  THEN Trim(SubSeq(heap, 1, Len(heap) - 1))
  ELSE heap

FreeSlots(heap) == { i \in DOMAIN heap : ~IsLive(heap[i]) }

\* The heaps a new row version may produce: it takes a slot the store has
\* reclaimed, or a new slot at the end.
Place(heap, row) ==
  { [heap EXCEPT ![i] = row] : i \in FreeSlots(heap) }
    \cup (IF Cardinality(FreeSlots(heap)) < MaxDead THEN {Append(heap, row)} ELSE {})

\* The heap with these slots made free.
Vacate(heap, slots) ==
  Trim([i \in DOMAIN heap |-> IF i \in slots THEN Free ELSE heap[i]])

\* DELETE FROM books WHERE id = ...
DeleteBook(heap, id) ==
  Vacate(heap, { i \in DOMAIN heap : heap[i].id = id })

VARIABLES
  books,          \* heap of table books
  books_id_seq,   \* last value of the sequence behind books.id
  reviews,        \* heap of table reviews
  reviews_id_seq, \* last value of the sequence behind reviews.id
  session,        \* bag of the requests suspended between SELECT and commit
  response        \* the response of the handler that just ended, or NoResponse

vars == << books, books_id_seq, reviews, reviews_id_seq, session, response >>
store == << books, books_id_seq, reviews, reviews_id_seq >>

NoResponse == [op |-> "none"]

Init ==
  /\ books = << >>
  /\ books_id_seq = 0
  /\ reviews = << >>
  /\ reviews_id_seq = 0
  /\ session = EmptyBag
  /\ response = NoResponse

\* ------------------------------------------------------------- responses
\* A response: the handler (op), the credentials and arguments it was called
\* with, the HTTP status, the exception behind a failure, whether the request
\* issued any statement to the store (io), and the body as a sequence.

\* raise HTTPException(status_code=401, ...) in authenticate_user: the handler
\* has read none of its arguments.
Unauthorized(op, credentials) ==
  [op |-> op, credentials |-> credentials, req |-> << >>, status |-> 401,
   error |-> "HTTPException", io |-> FALSE, body |-> << >>]

\* raise HTTPException(status_code=404, ...) after the handler's SELECT.
NotFound(op, credentials, req) ==
  [op |-> op, credentials |-> credentials, req |-> req, status |-> 404,
   error |-> "HTTPException", io |-> TRUE, body |-> << >>]

\* An exception no handler catches: the framework answers 500.
Unhandled(op, credentials, req, exception) ==
  [op |-> op, credentials |-> credentials, req |-> req, status |-> 500,
   error |-> exception, io |-> TRUE, body |-> << >>]

Ok(op, credentials, req, body) ==
  [op |-> op, credentials |-> credentials, req |-> req, status |-> 200,
   error |-> "", io |-> TRUE, body |-> body]

\* ---------------------------------------------------------------- queries
\* select(Book).where(Book.id == id), scalar_one_or_none(): None or Some(row).
SelectBook(heap, id) ==
  LET found == SelectSeq(heap, LAMBDA row : row.id = id)
  IN  IF found = << >> THEN None ELSE Some(found[1])

\* select(Review).where(Review.book_id == id), scalars().all().
SelectReviews(heap, id) ==
  SelectSeq(Scan(heap), LAMBDA row : row.book_id = id)

Min(a, b) == IF a < b THEN a ELSE b

\* select(Book).offset(skip).limit(limit), scalars().all().
SelectBooks(heap, skip, limit) ==
  LET rows == Scan(heap)
      rest == SubSeq(rows, skip + 1, Len(rows))
  IN  SubSeq(rest, 1, Min(limit, Len(rest)))

\* The slot of the live row with this id.
SlotOf(heap, id) == CHOOSE i \in DOMAIN heap : heap[i].id = id

\* ------------------------------------------------------------- aggregates
RECURSIVE Sum(_)
Sum(ratings) ==
  IF ratings = << >> THEN 0 ELSE ratings[1] + Sum(Tail(ratings))

RECURSIVE GCD(_, _)
GCD(a, b) == IF b = 0 THEN a ELSE GCD(b, a % b)

\* A float quotient of two small integers, as the fraction in lowest terms:
\* 12 / 3 = 4.0 = << 4, 1 >>,  7 / 2 = 3.5 = << 7, 2 >>.
TrueDiv(total, count) ==
  LET g == GCD(total, count) IN << total \div g, count \div g >>

\* separator.join(texts)
RECURSIVE Join(_, _)
Join(separator, texts) ==
  IF texts = << >> THEN << >>
  ELSE IF Len(texts) = 1 THEN texts[1]
  ELSE texts[1] \o separator \o Join(separator, Tail(texts))

Ratings(rows) == [i \in DOMAIN rows |-> rows[i].rating]
Texts(rows) == [i \in DOMAIN rows |-> rows[i].review_text]

\* --------------------------------------------------------------- handlers
\* A handler starts when the response before it has gone to its caller.
Ready == response = NoResponse

\* The id the INSERT draws from the sequence.
NextVal(seq) == seq + 1

\* create_book: add, commit (INSERT with the next id of the sequence), refresh.
create_book(credentials, raw) ==
  /\ Ready
  /\ IF ~authenticate_user(credentials)
     THEN /\ response' = Unauthorized("create_book", credentials)
          /\ UNCHANGED << store, session >>
     ELSE LET db_book == Book(NextVal(books_id_seq), BookCreate(raw)) IN
          /\ books' \in Place(books, db_book)
          /\ books_id_seq' = NextVal(books_id_seq)
          /\ response' = Ok("create_book", credentials, [book |-> raw],
                            SelectBook(books', db_book.id))
          /\ UNCHANGED << reviews, reviews_id_seq, session >>

DefaultSkip == 0
DefaultLimit == 10

\* read_books: skip and limit are None when the caller gave none.
read_books(credentials, skip, limit) ==
  /\ Ready
  /\ response' =
       IF ~authenticate_user(credentials)
       THEN Unauthorized("read_books", credentials)
       ELSE Ok("read_books", credentials, [skip |-> skip, limit |-> limit],
               SelectBooks(books,
                           IF skip = None THEN DefaultSkip ELSE skip[1],
                           IF limit = None THEN DefaultLimit ELSE limit[1]))
  /\ UNCHANGED << store, session >>

read_book(credentials, id) ==
  /\ Ready
  /\ response' =
       IF ~authenticate_user(credentials)
       THEN Unauthorized("read_book", credentials)
       ELSE LET book == SelectBook(books, id) IN
            IF book = None THEN NotFound("read_book", credentials, [id |-> id])
            ELSE Ok("read_book", credentials, [id |-> id], book)
  /\ UNCHANGED << store, session >>

\* The first half of update_book, delete_book and create_review: authenticate,
\* SELECT the Book, raise 404 if there is none; then the request is suspended
\* at its next await.  update_book keeps the row it read.
SelectThenSuspend(op, credentials, req) ==
  /\ Ready
  /\ IF ~authenticate_user(credentials)
     THEN /\ response' = Unauthorized(op, credentials)
          /\ UNCHANGED session
     ELSE LET db_book == SelectBook(books, req.id) IN
          IF db_book = None
          THEN /\ response' = NotFound(op, credentials, req)
               /\ UNCHANGED session
          ELSE /\ session' = session (+) SetToBag(
                    {[op |-> op, credentials |-> credentials, req |-> req,
                      db_book |-> IF op = "update_book" THEN db_book[1] ELSE Free]})
               /\ UNCHANGED response
  /\ UNCHANGED store

\* The suspended request resumes and ends.
Resume(request) ==
  /\ Ready
  /\ BagIn(request, session)
  /\ session' = session (-) SetToBag({request})

update_book_select(credentials, id, raw) ==
  SelectThenSuspend("update_book", credentials, [id |-> id, book |-> raw])

\* The attributes setattr changed from their loaded values: the columns of the
\* UPDATE the flush emits.
Dirty(db_book, book) == { key \in BookFields : book[key] # db_book[key] }

\* UPDATE books SET <dirty columns> WHERE id = ...: the row as it is in the
\* table now, with the dirty columns set.
Updated(row, book, dirty) ==
  [key \in DOMAIN row |-> IF key \in dirty THEN book[key] ELSE row[key]]

\* Mutant: the row is written back whether or not it is still in the table
\* (merge instead of UPDATE).
update_book_commit_upsert(request) ==
  /\ request.op = "update_book"
  /\ Resume(request)
  /\ LET req == request.req
         row == Book(req.id, BookCreate(req.book))
         kept == DeleteBook(books, req.id)
     IN  /\ books' \in Place(kept, row)
         /\ response' = Ok("update_book", request.credentials, req, << row >>)
  /\ UNCHANGED << books_id_seq, reviews, reviews_id_seq >>

\* The second half of update_book: setattr for every key, commit, refresh.
update_book_commit(request) ==
  /\ request.op = "update_book"
  /\ Resume(request)
  /\ LET req == request.req
         book == BookCreate(req.book)
         dirty == Dirty(request.db_book, book)
         current == SelectBook(books, req.id)
     IN  IF current = None
         THEN \* the UPDATE matched no row, or (nothing dirty) the refresh found none
              /\ response' = Unhandled("update_book", request.credentials, req,
                                       IF dirty = {} THEN "InvalidRequestError"
                                       ELSE "StaleDataError")
              /\ UNCHANGED books
         ELSE IF dirty = {}
         THEN /\ response' = Ok("update_book", request.credentials, req, current)
              /\ UNCHANGED books
         ELSE LET row == Updated(current[1], book, dirty)
                  old == SlotOf(books, req.id)
              IN  /\ \E heap \in Place(books, row) :
                       books' = Vacate(heap, {old})
                  /\ response' = Ok("update_book", request.credentials, req,
                                    SelectBook(books', req.id))
  /\ UNCHANGED << books_id_seq, reviews, reviews_id_seq >>

delete_book_select(credentials, id) ==
  SelectThenSuspend("delete_book", credentials, [id |-> id])

\* Mutant: no cascade.
Cascade_none(heap, book_id) == heap

\* relationship(cascade="all, delete-orphan"), ForeignKey(ondelete='CASCADE'):
\* the Reviews of a deleted Book go with it.
Cascade(heap, book_id) ==
  Vacate(heap, { i \in DOMAIN heap : IsLive(heap[i]) /\ heap[i].book_id = book_id })

\* The second half of delete_book: delete(db_book), commit.  A DELETE that
\* matches no row only warns.
delete_book_commit(request) ==
  /\ request.op = "delete_book"
  /\ Resume(request)
  /\ LET req == request.req IN
     /\ books' = DeleteBook(books, req.id)
     /\ reviews' = Cascade(reviews, req.id)
     /\ response' = Ok("delete_book", request.credentials, req,
                       << [detail |-> "Book deleted"] >>)
  /\ UNCHANGED << books_id_seq, reviews_id_seq >>

create_review_select(credentials, id, review) ==
  SelectThenSuspend("create_review", credentials, [id |-> id, review |-> review])

\* Mutant: the lower end is off by one.
RatingCheck_from_zero(rating) == rating >= 0 /\ rating <= 5

\* CheckConstraint('rating >= 1 AND rating <= 5')
RatingCheck(rating) == rating >= 1 /\ rating <= 5

\* Mutant: book_id is a plain integer column.
ForeignKeyCheck_none(heap, book_id) == TRUE

\* ForeignKey('books.id'): the referenced Book is in the table.
ForeignKeyCheck(heap, book_id) == SelectBook(heap, book_id) # None

\* The second half of create_review: add, commit (INSERT), refresh.  The
\* INSERT draws its id from the sequence before the constraints are checked;
\* a violated constraint raises IntegrityError and the row is not stored.
create_review_commit(request) ==
  /\ request.op = "create_review"
  /\ Resume(request)
  /\ LET req == request.req
         db_review == Review(NextVal(reviews_id_seq), req.id, req.review)
     IN  IF RatingCheck(db_review.rating) /\ ForeignKeyCheck(books, db_review.book_id)
         THEN /\ reviews' \in Place(reviews, db_review)
              /\ response' = Ok("create_review", request.credentials, req, << db_review >>)
         ELSE /\ response' = Unhandled("create_review", request.credentials, req,
                                       "IntegrityError")
              /\ UNCHANGED reviews
  /\ reviews_id_seq' = NextVal(reviews_id_seq)
  /\ UNCHANGED << books, books_id_seq >>

read_reviews(credentials, id) ==
  /\ Ready
  /\ response' =
       IF ~authenticate_user(credentials)
       THEN Unauthorized("read_reviews", credentials)
       ELSE Ok("read_reviews", credentials, [id |-> id], SelectReviews(reviews, id))
  /\ UNCHANGED << store, session >>

book_summary(credentials, id) ==
  /\ Ready
  /\ response' =
       IF ~authenticate_user(credentials)
       THEN Unauthorized("book_summary", credentials)
       ELSE LET rows == SelectReviews(reviews, id) IN
            IF rows = << >> THEN NotFound("book_summary", credentials, [id |-> id])
            ELSE Ok("book_summary", credentials, [id |-> id],
                    << [average_rating |-> TrueDiv(Sum(Ratings(rows)), Len(rows)),
                        summary |-> Join(Space, Texts(rows))] >>)
  /\ UNCHANGED << store, session >>

\* The response goes to the caller (the handler returns, get_db closes the
\* session).
deliver ==
  /\ ~Ready
  /\ response' = NoResponse
  /\ UNCHANGED << store, session >>

\* ------------------------------------------------------------------ inputs
\* One id more than the sequence ever hands out: an id no Book has.
BookIds == 1 .. MaxBookId + 1
Skips == { None, Some(0), Some(1) }
Limits == { None, Some(0), Some(1), Some(2) }

Suspended == BagToSet(session)

\* The requests that write, and the steps that resume them: the inputs drawn
\* from the given sets, the sequences and the suspended requests capped.
Mutations(credentialSet, raws, reviewCreates, maxReviewId, maxSessions) ==
  \/ \E credentials \in credentialSet :
       \/ \E raw \in raws :
            books_id_seq < MaxBookId /\ create_book(credentials, raw)
       \/ \E id \in BookIds, raw \in raws :
            /\ BagCardinality(session) < maxSessions
            /\ update_book_select(credentials, id, raw)
       \/ \E id \in BookIds :
            /\ BagCardinality(session) < maxSessions
            /\ delete_book_select(credentials, id)
       \/ \E id \in BookIds, review \in reviewCreates :
            /\ BagCardinality(session) < maxSessions
            /\ create_review_select(credentials, id, review)
  \/ \E request \in Suspended :
       \/ update_book_commit(request)
       \/ delete_book_commit(request)
       \/ reviews_id_seq < maxReviewId /\ create_review_commit(request)

\* The requests that only read.
ReviewReads(credentialSet) ==
  \E credentials \in credentialSet, id \in BookIds :
    \/ read_reviews(credentials, id)
    \/ book_summary(credentials, id)

BookReads(credentialSet) ==
  \E credentials \in credentialSet :
    \/ \E skip \in Skips, limit \in Limits : read_books(credentials, skip, limit)
    \/ \E id \in BookIds : read_book(credentials, id)

\* Every handler, every credential, every payload.
Next ==
  \/ Mutations(Credentials, RawBooks, ReviewCreates, MaxReviewId, MaxSessions)
  \/ BookReads(Credentials)
  \/ ReviewReads(Credentials)
  \/ deliver

Spec == Init /\ [][Next]_vars

\* The writing handlers, two requests suspended at a time.
RaceCredentials == { ValidCredentials, [username |-> "admin", password |-> "wrong"] }
RaceReviewCreates == { review \in ReviewCreates : review.rating = 5 }

NextRace ==
  \/ Mutations(RaceCredentials, RawBooks, RaceReviewCreates, MaxReviewId, MaxRacing)
  \/ deliver

SpecRace == Init /\ [][NextRace]_vars

\* Books with up to three Reviews, and their summaries.
SummaryRawBooks == { raw \in RawBooks : raw.title = "Dune" }
SummaryReviewCreates == { review \in ReviewCreates : RatingCheck(review.rating) }

NextSummary ==
  \/ Mutations({ValidCredentials}, SummaryRawBooks, SummaryReviewCreates,
               MaxSummaryReviewId, MaxSessions)
  \/ ReviewReads({ValidCredentials})
  \/ deliver

SpecSummary == Init /\ [][NextSummary]_vars

\* ================================================================ claims
\* The handler whose response is in `response` was called with valid
\* credentials and got past its SELECT.
Completed(r, op) == r.op = op /\ r.status \notin {401, 404}

RECURSIVE SortById(_)
\* The rows of a set, by ascending id.
SortById(rows) ==
  IF rows = {} THEN << >>
  ELSE LET first == CHOOSE r \in rows : \A o \in rows : r.id <= o.id
       IN  << first >> \o SortById(rows \ {first})

LiveRows(heap) == { heap[i] : i \in DOMAIN heap \ FreeSlots(heap) }

\* ------------------------------------------------------------------- C1
\* C1: in every reachable state every stored Review's book_id is the id of a
\* Book in the table, whatever the interleaving of the writing handlers.
C1_NoOrphanReview ==
  \A review \in LiveRows(reviews) : SelectBook(books, review.book_id) # None

\* A create_review that passed its existence check, lost the Book to a
\* delete_book that committed first, and was refused by the store.
C1_Witness ==
  /\ Completed(response, "create_review")
  /\ response.status = 500
  /\ SelectBook(books, response.req.id) = None
  /\ LiveRows(reviews) # {}

\* ------------------------------------------------------------------- C2
\* One step, as C2 has it.
C2_RatingStep ==
  /\ (Completed(response', "create_review") /\ response'.req.review.rating \notin 1 .. 5)
       => /\ response'.status = 500
          /\ response'.error = "IntegrityError"
          /\ books' = books
          /\ reviews' = reviews
  /\ \A review \in LiveRows(reviews') : review.rating \in 1 .. 5

\* C2: a create_review with a rating outside 1..5, on an existing Book with
\* valid credentials, fails with the store's constraint error and leaves both
\* tables as they were; every stored Review has a rating in 1..5.
C2_RatingRejected == [][C2_RatingStep]_vars

\* A rating of 6 refused while the Book is in the table and has a Review.
C2_Witness ==
  /\ Completed(response, "create_review")
  /\ response.req.review.rating = 6
  /\ response.status = 500
  /\ SelectReviews(reviews, response.req.id) # << >>

\* ------------------------------------------------------------------- C3
\* One step, as C3 has it.
C3_DeleteStep ==
  (response'.op = "delete_book" /\ response'.status = 200) =>
    LET b == response'.req.id IN
    /\ SelectReviews(reviews', b) = << >>
    /\ SelectBook(books', b) = None
    /\ \A other \in BookIds \ {b} :
         /\ SelectBook(books', other) = SelectBook(books, other)
         /\ SelectReviews(reviews', other) = SelectReviews(reviews, other)

\* C3: the step in which delete_book(b) succeeds removes the Book and all its
\* Reviews: right after it read_reviews(b) is empty and read_book(b) finds
\* nothing, and every other Book and its Reviews are as before.
C3_DeleteCascades == [][C3_DeleteStep]_vars

\* A delete_book has just succeeded; a Review went with the Book (its slot is
\* free) and another Book still has its Review.
C3_Witness ==
  /\ response.op = "delete_book"
  /\ response.status = 200
  /\ FreeSlots(reviews) # {}
  /\ \E review \in LiveRows(reviews) : review.book_id # response.req.id

\* ------------------------------------------------------------------- C4
\* One step, as C4 has it.
C4_BadCredentialsStep ==
  (response'.op # "none" /\ response'.credentials # ValidCredentials) =>
    /\ response'.status = 401
    /\ ~response'.io
    /\ store' = store
    /\ session' = session

\* C4: a handler called with credentials other than the valid pair answers
\* 401 having issued no statement to the store, and changes nothing.
C4_BadCredentialsRejected == [][C4_BadCredentialsStep]_vars

\* delete_book refused for a wrong user name while the Book and a Review of
\* it are in the tables.
C4_Witness ==
  /\ response.op = "delete_book"
  /\ response.status = 401
  /\ response.credentials.username # "admin"
  /\ LiveRows(books) # {}
  /\ LiveRows(reviews) # {}

\* ------------------------------------------------------------------- C5
\* C5: read_books(skip, limit) returns the Books by ascending id, the first
\* skip dropped and at most limit kept (0 and 10 when not given).
C5_ListedById ==
  (response.op = "read_books" /\ response.status = 200) =>
    LET skip == IF response.req.skip = None THEN 0 ELSE response.req.skip[1]
        limit == IF response.req.limit = None THEN 10 ELSE response.req.limit[1]
        sorted == SortById(LiveRows(books))
        rest == SubSeq(sorted, skip + 1, Len(sorted))
    IN  response.body = SubSeq(rest, 1, Min(limit, Len(rest)))

\* ------------------------------------------------------------------- C6
\* C6: right after a successful update_book(id, payload) the Book's five
\* fields are the payload's, an optional field the payload lacks being None.
C6_FullReplace ==
  (response.op = "update_book" /\ response.status = 200) =>
    LET raw == response.req.book
        now == SelectBook(books, response.req.id)
    IN  /\ now # None
        /\ now[1].id = response.req.id
        /\ now[1].title = raw.title
        /\ now[1].author = raw.author
        /\ \A key \in OptionalBookFields :
             now[1][key] = IF key \in DOMAIN raw THEN Some(raw[key]) ELSE None

\* ------------------------------------------------------------------- C7
\* C7: book_summary(id) answers 404 exactly when no stored Review has that
\* book_id; otherwise average_rating is the sum of the ratings over their
\* count and summary is the texts, in the order the Reviews were inserted,
\* joined by single spaces.
C7_Summary ==
  response.op = "book_summary" =>
    LET inserted == SortById({ r \in LiveRows(reviews) : r.book_id = response.req.id })
    IN  /\ response.status = 404 <=> inserted = << >>
        /\ response.status = 200 =>
             /\ response.body[1].average_rating[1] * Len(inserted)
                  = Sum(Ratings(inserted)) * response.body[1].average_rating[2]
             /\ response.body[1].summary = Join(Space, Texts(inserted))

\* ------------------------------------------------------------------- C8
\* A Book id the sequence has handed out and that is not in the table.
Gone(heap, seq, id) == id <= seq /\ SelectBook(heap, id) = None

\* One step, as C8 has it.
C8_StaysGone ==
  \A id \in BookIds : Gone(books, books_id_seq, id) => Gone(books', books_id_seq', id)

\* C8: once a Book is deleted no later state holds a Book with its id: no
\* create_book gets the id again and no update_book brings the Book back.
C8_DeletedStaysDeleted == [][C8_StaysGone]_vars

\* An update_book that read the Book before a delete_book committed has
\* ended, and a Book created after the delete is in the table.
C8_Witness ==
  /\ Completed(response, "update_book")
  /\ response.status = 500
  /\ Gone(books, books_id_seq, response.req.id)
  /\ \E book \in LiveRows(books) : book.id > response.req.id

\* ------------------------------------------------------------------- C9
\* One step, as C9 has it.
C9_CreateStep ==
  /\ (response'.op = "create_book" /\ response'.status = 200) =>
       LET raw == response'.req.book
           record == response'.body[1]
       IN  /\ record.id > books_id_seq
           /\ SelectBook(books, record.id) = None
           /\ record.title = raw.title
           /\ record.author = raw.author
           /\ \A key \in OptionalBookFields :
                record[key] = IF key \in DOMAIN raw THEN Some(raw[key]) ELSE None
           /\ SelectBook(books', record.id) = << record >>
  /\ \A id \in BookIds :
       SelectBook(books', id) # SelectBook(books, id) =>
         \/ response'.op = "create_book" /\ response'.status = 200
              /\ response'.body[1].id = id
         \/ response'.op \in {"update_book", "delete_book"} /\ response'.status = 200
              /\ response'.req.id = id

\* C9: create_book returns a record with an id no Book had before and the
\* payload's fields (an absent optional field None), read_book(id) returns
\* that record right after, and only an update_book or a delete_book of that
\* id changes what read_book(id) returns.
C9_RoundTrip == [][C9_CreateStep]_vars

\* A second Book has just been created from the full payload.
C9_Witness ==
  /\ response.op = "create_book"
  /\ response.status = 200
  /\ response.body[1].id = 2
  /\ response.body[1].year_published = Some(1815)
  /\ SelectBook(books, 1) # None

\* ------------------------------------------------------------------ C10
\* C10: a create_review with a valid payload ends in success with the Review
\* stored under the Book's id, or in a typed failure (an HTTPException the
\* handler raises) with no Review stored; never in an unhandled exception.
C10_TypedOutcome ==
  (response.op = "create_review" /\ response.status # 401
     /\ response.req.review.rating \in 1 .. 5) =>
    \/ /\ response.status = 200
       /\ response.body[1] \in LiveRows(reviews)
       /\ response.body[1].book_id = response.req.id
    \/ /\ response.error = "HTTPException"
       /\ response.status \in {404, 409, 422}
====
